---- MODULE Spec2Model ----
(***************************************************************************)
(* iGit: the Bubble Tea update loop (src/update.go), the model and its     *)
(* selection helpers (src/main.go), the commands that run in goroutines    *)
(* (src/commands.go), the git client (src/unnamed/part_003), status        *)
(* parsing (src/git/status.go) and the layout (src/unnamed/part_002).      *)
(*                                                                         *)
(* Strings the code inspects character by character (porcelain output,     *)
(* paths) are sequences of one-character strings.  A text typed into an    *)
(* input is the sequence of the runes its key messages carried, and a      *)
(* banner (status, error) is a TLA+ string.                                *)
(***************************************************************************)
EXTENDS Integers, Sequences, FiniteSets, Bags, TLC

(***************************************************************************)
(* Bounds of the model.                                                    *)
(***************************************************************************)
\* number of paths in the working tree
NumPaths == 2
\* an input that dispatches is taken while the commands and messages in flight,
\* those it adds included, number at most this
MaxInFlight == 2
\* texts typed into an input hold at most this many key messages
MaxTextLen == 1
\* at most this many keys pressed while an error is shown are taken
MaxIgnoredKeys == 1
\* the layout is computed for the terminals of 0..MaxWidth columns and
\* 0..MaxHeight rows
MaxWidth == 160
MaxHeight == 30
\* the files classified as binary or text hold at most this many bytes, or one
\* byte more than the sample
MaxBufLen == 13

(***************************************************************************)
(* Enumerations of src/main.go and src/git/types.go.                       *)
(***************************************************************************)
StateFileList == "StateFileList"
StateCommitMessage == "StateCommitMessage"
StateModifyHead == "StateModifyHead"
StateHelp == "StateHelp"

CommitStateMessage == "CommitStateMessage"
CommitStateDate == "CommitStateDate"

HeadModifyStateMenu == "HeadModifyStateMenu"
HeadModifyStateAmendMessage == "HeadModifyStateAmendMessage"

StatusStaged == "StatusStaged"
StatusUnstaged == "StatusUnstaged"
StatusUntracked == "StatusUntracked"

(***************************************************************************)
(* Small helpers.                                                          *)
(***************************************************************************)
Max(a, b) == IF a > b THEN a ELSE b

Min(a, b) == IF a < b THEN a ELSE b

Itoa(n) == <<"0", "1", "2", "3", "4", "5", "6", "7", "8", "9">>[n + 1]

\* strings.TrimSpace: leading and trailing white space removed
IsSpace(c) == c \in {" ", "\n", "\t", "\r"}

RECURSIVE TrimLeft(_)
TrimLeft(s) == IF s # <<>> /\ IsSpace(Head(s)) THEN TrimLeft(Tail(s)) ELSE s

RECURSIVE TrimRight(_)
TrimRight(s) ==
    IF s # <<>> /\ IsSpace(s[Len(s)]) THEN TrimRight(SubSeq(s, 1, Len(s) - 1)) ELSE s

TrimSpace(s) == TrimRight(TrimLeft(s))

\* strings.Split(s, "\n"): the lines of s, at least one
RECURSIVE SplitFrom(_, _, _)
SplitFrom(s, i, cur) ==
    IF i > Len(s) THEN <<cur>>
    ELSE IF s[i] = "\n" THEN <<cur>> \o SplitFrom(s, i + 1, <<>>)
    ELSE SplitFrom(s, i + 1, Append(cur, s[i]))

SplitLines(s) == SplitFrom(s, 1, <<>>)

\* strings.Trim(s, "\""): leading and trailing double quotes removed
RECURSIVE TrimQuotesLeft(_)
TrimQuotesLeft(s) == IF s # <<>> /\ Head(s) = "\"" THEN TrimQuotesLeft(Tail(s)) ELSE s

RECURSIVE TrimQuotesRight(_)
TrimQuotesRight(s) ==
    IF s # <<>> /\ s[Len(s)] = "\"" THEN TrimQuotesRight(SubSeq(s, 1, Len(s) - 1)) ELSE s

TrimQuotes(s) == TrimQuotesRight(TrimQuotesLeft(s))

(***************************************************************************)
(* src/git/status.go                                                       *)
(***************************************************************************)
EmptyGitStatus == [Staged |-> <<>>, Unstaged |-> <<>>, Untracked |-> <<>>]

\* one line of the loop of parseStatusOutput
ParseLine(status, line) ==
    IF line = <<>> \/ Len(line) < 4 THEN status
    ELSE LET x == line[1]
             y == line[2]
             filepath == TrimQuotes(SubSeq(line, 4, Len(line)))
         IN  IF x # " " /\ x # "?"
                 THEN [status EXCEPT !.Staged = Append(@, filepath)]
             ELSE IF y # " "
                 THEN [status EXCEPT !.Unstaged = Append(@, filepath)]
             ELSE IF x = "?" /\ y = "?"
                 THEN [status EXCEPT !.Untracked = Append(@, filepath)]
             ELSE status

RECURSIVE ParseLines(_, _, _)
ParseLines(status, lines, i) ==
    IF i > Len(lines) THEN status
    ELSE ParseLines(ParseLine(status, lines[i]), lines, i + 1)

parseStatusOutput(output) ==
    ParseLines(EmptyGitStatus, SplitLines(TrimSpace(output)), 1)

\* StagedCount counting the paths with unstaged changes as well
StagedCountWithUnstaged(s) == Len(s.Staged) + Len(s.Unstaged)

StagedCount(s) == Len(s.Staged)

NewFileItem(path, fstatus) == [Path |-> path, Status |-> fstatus, Selected |-> FALSE]

AllFiles(s) ==
    [i \in 1..Len(s.Unstaged) |-> NewFileItem(s.Unstaged[i], StatusUnstaged)]
    \o [i \in 1..Len(s.Staged) |-> NewFileItem(s.Staged[i], StatusStaged)]
    \o [i \in 1..Len(s.Untracked) |-> NewFileItem(s.Untracked[i], StatusUntracked)]

(***************************************************************************)
(* src/unnamed/part_002: the layout                                        *)
(***************************************************************************)
\* NewLayout with the 50/50 split for every width of 100 and more
NewLayoutEvenSplit(w, h) ==
    LET contentHeight == IF h - 5 < 5 THEN 5 ELSE h - 5
        listWidth0 == IF w < 100 THEN w - 2 ELSE w \div 2
        previewWidth0 == IF w < 100 THEN 0 ELSE w - listWidth0 - 2
        listWidth1 == IF listWidth0 < 30 THEN 30 ELSE listWidth0
        previewWidth1 == IF listWidth0 < 30 THEN 0 ELSE previewWidth0
        previewWidth2 == IF previewWidth1 < 30 THEN 0 ELSE previewWidth1
    IN  [TotalWidth |-> w, TotalHeight |-> h, ListWidth |-> listWidth1,
         PreviewWidth |-> previewWidth2, ContentHeight |-> contentHeight]

\* NewLayout without the two "ensure minimum widths" steps
NewLayoutUnclamped(w, h) ==
    LET contentHeight == IF h - 5 < 5 THEN 5 ELSE h - 5
        listWidth0 == IF w < 100 THEN w - 2
                      ELSE IF w < 140 THEN w \div 2
                      ELSE (w * 2) \div 5
        previewWidth0 == IF w < 100 THEN 0 ELSE w - listWidth0 - 2
    IN  [TotalWidth |-> w, TotalHeight |-> h, ListWidth |-> listWidth0,
         PreviewWidth |-> previewWidth0, ContentHeight |-> contentHeight]

NewLayout(w, h) ==
    LET contentHeight == IF h - 5 < 5 THEN 5 ELSE h - 5
        listWidth0 == IF w < 100 THEN w - 2
                      ELSE IF w < 140 THEN w \div 2
                      ELSE (w * 2) \div 5
        previewWidth0 == IF w < 100 THEN 0 ELSE w - listWidth0 - 2
        listWidth1 == IF listWidth0 < 30 THEN 30 ELSE listWidth0
        previewWidth1 == IF listWidth0 < 30 THEN 0 ELSE previewWidth0
        previewWidth2 == IF previewWidth1 < 30 THEN 0 ELSE previewWidth1
    IN  [TotalWidth |-> w, TotalHeight |-> h, ListWidth |-> listWidth1,
         PreviewWidth |-> previewWidth2, ContentHeight |-> contentHeight]

HasPreviewPane(l) == l.PreviewWidth > 0

ListHeight(l) == l.ContentHeight - 2

(***************************************************************************)
(* The working tree and HEAD, as git reports them (the backend).  repo[i]  *)
(* is the XY code `git status --porcelain` prints for path i, or Clean.    *)
(***************************************************************************)
Paths == 1..NumPaths

PathName(i) == <<"f", Itoa(i)>>

Clean == <<" ", " ">>

Modified == <<" ", "M">>

StagedXY == <<"M", " ">>

UntrackedXY == <<"?", "?">>

AddedXY == <<"A", " ">>

InitSubject == <<"h">>

\* the runes one key message carries into a message textarea
MsgRunes == {"x"}

\* the runes one key message (a paste) carries into the date input
DateRunes == {"2024-01-02", "soon", "now"}

\* terminal sizes the window reports
Widths == {80, 120}

Heights == {24}

VARIABLES
    state, commitState, headModifyState,       \* AppState and its sub-states
    err, status, processing,                   \* banners and the footer flag
    width, height, ready, layout, viewportHeight,
    gitStatus, files, selectedFiles, listIndex, lastFileIndex,
    previewFocused, previewContent,
    diffCache,                                 \* map shared with the commands
    commitTextarea, commitInput, commitMessage, commitDate,
    headInfo, headMessageTextarea,
    repo, head, fileBytes,                     \* the backend
    lastCall, diffCalls,                       \* history of the backend calls
    ignoredKeys,                               \* history of the keys not acted on
    marked,                                    \* history: the paths the user has selected
    cmds,                                      \* commands running in goroutines
    msgs,                                      \* messages sent, not yet received
    exited                                     \* "no", "quit" or "fatal"

modeVars == <<state, commitState, headModifyState>>

bannerVars == <<err, status, processing>>

sizeVars == <<width, height, ready, layout, viewportHeight>>

listVars == <<gitStatus, files, selectedFiles, listIndex, lastFileIndex>>

previewVars == <<previewFocused, previewContent>>

commitVars == <<commitTextarea, commitInput, commitMessage, commitDate>>

headVars == <<headInfo, headMessageTextarea>>

backendVars == <<repo, head, fileBytes>>

historyVars == <<lastCall, diffCalls, ignoredKeys, marked>>

vars == <<modeVars, bannerVars, sizeVars, listVars, previewVars, diffCache,
          commitVars, headVars, backendVars, historyVars, cmds, msgs, exited>>

\* NewModel sets showPreview and nothing ever changes it (togglePreview has no caller)
showPreview == TRUE

NoContent == [k |-> "", path |-> <<>>, staged |-> FALSE]

NoInput == [value |-> <<>>, focus |-> FALSE]

\* a nil *git.CommitInfo
NoHeadInfo == [present |-> FALSE, Message |-> <<>>]

\* the bytes of the file at path i, when the session starts
FileBytes(i) == IF i % 2 = 0 THEN <<137, 80, 0, 13>> ELSE <<104, 105, 10>>

\* lastCall: the last Stage, Unstage or Commit the backend ran
NoCall == [op |-> "none", files |-> <<>>, ok |-> FALSE]

NoSelection == [i \in {} |-> FALSE]

Bag1(e) == SetToBag({e})

InFlight == BagCardinality(cmds) + BagCardinality(msgs)

\* the output of `git status --porcelain -u`: one line per path that is not clean
RECURSIVE Porcelain(_, _)
Porcelain(r, i) ==
    IF i > NumPaths THEN <<>>
    ELSE (IF r[i] = Clean THEN <<>> ELSE r[i] \o <<" ">> \o PathName(i) \o <<"\n">>)
         \o Porcelain(r, i + 1)

\* the index of a path of the working tree, 0 for any other text
PathIndex(name) == IF \E i \in Paths : PathName(i) = name
                   THEN CHOOSE i \in Paths : PathName(i) = name
                   ELSE 0

\* the working trees at start: path 2 modified, path 1 staged or untracked, the
\* others untracked
InitRepos == {[i \in Paths |-> IF i = 1 THEN first
                               ELSE IF i = 2 THEN Modified ELSE UntrackedXY] :
                 first \in {StagedXY, UntrackedXY}}

InitWith(tree, bytes) ==
    /\ state = StateFileList
    /\ commitState = CommitStateMessage
    /\ headModifyState = HeadModifyStateMenu
    /\ err = ""
    /\ status = ""
    /\ processing = FALSE
    /\ width = 0
    /\ height = 0
    /\ ready = FALSE
    /\ layout = NewLayout(80, 24)
    /\ viewportHeight = 0
    /\ gitStatus = EmptyGitStatus
    /\ files = <<>>
    /\ selectedFiles = NoSelection
    /\ listIndex = 0
    /\ lastFileIndex = -1
    /\ previewFocused = FALSE
    /\ previewContent = NoContent
    /\ diffCache = [p \in {} |-> NoContent]
    /\ commitTextarea = NoInput
    /\ commitInput = NoInput
    /\ commitMessage = <<>>
    /\ commitDate = <<>>
    /\ headInfo = NoHeadInfo
    /\ headMessageTextarea = NoInput
    /\ repo = tree
    /\ head = InitSubject
    /\ fileBytes = bytes
    /\ lastCall = NoCall
    /\ diffCalls = [i \in Paths |-> 0]
    /\ ignoredKeys = 0
    /\ marked = {}
    /\ cmds = Bag1([c |-> "fetchGitStatus"])
    /\ msgs = EmptyBag
    /\ exited = "no"

Init == \E tree \in InitRepos : InitWith(tree, [i \in Paths |-> FileBytes(i)])

(***************************************************************************)
(* src/main.go: helpers of the model                                       *)
(***************************************************************************)
\* m.selectedFiles[i] of a Go map: false for a missing key
IsSelected(sel, i) == i \in DOMAIN sel /\ sel[i]

\* getCurrentFile returns nil unless the list index is a position of m.files
HasCurrentFile(fs, idx) == idx >= 0 /\ idx < Len(fs)

getSelectedFiles(fs, sel) == SelectSeq(
    [i \in 1..Len(fs) |-> [Path |-> fs[i].Path, Status |-> fs[i].Status,
                           Selected |-> IsSelected(sel, i - 1)]],
    LAMBDA f : f.Selected)

\* the file a command captures by value
FileArg(f) == [Path |-> f.Path, Status |-> f.Status]

fetchDiffCmd(f) == [c |-> "fetchDiffCmd", file |-> FileArg(f), pc |-> "start",
                    content |-> NoContent]

toggleSelectionCmd(fs) == [c |-> "toggleSelectionCmd",
                           files |-> [i \in 1..Len(fs) |-> FileArg(fs[i])]]

clearStatus == [m |-> "statusMsg", text |-> ""]

clearError == [m |-> "errorMsg", text |-> ""]

\* len(strings.Split(content, "\n")): the text of path 1 is long, any other one line
LineCount(content) ==
    IF content.k \in {"diff", "raw"} THEN (IF PathIndex(content.path) = 1 THEN 40 ELSE 1)
    ELSE IF content.k = "(File has no changes)" THEN 3
    ELSE 1

Running == exited = "no"

\* a key message reaches handleKeyMsg only while no error is shown
KeyIn(st) == Running /\ err = "" /\ state = st

\* an input is taken while the commands and messages it adds fit under the bound
Room(n) == InFlight + n <= MaxInFlight

MayDispatch == Room(1)

(***************************************************************************)
(* src/update.go: handleFileListKeys                                       *)
(***************************************************************************)
KeyQuit ==
    /\ Running
    /\ err # "" \/ state = StateFileList
    /\ exited' = "quit"
    /\ UNCHANGED <<modeVars, bannerVars, sizeVars, listVars, previewVars, diffCache,
                   commitVars, headVars, backendVars, historyVars, cmds, msgs>>

\* any key but quit while an error is shown
KeyIgnoredOnError ==
    /\ Running
    /\ err # ""
    /\ ignoredKeys < MaxIgnoredKeys
    /\ ignoredKeys' = ignoredKeys + 1
    /\ UNCHANGED <<modeVars, bannerVars, sizeVars, listVars, previewVars, diffCache,
                   commitVars, headVars, backendVars, lastCall, diffCalls, marked, cmds,
                   msgs, exited>>

\* marked follows what the user sees: the path of the entry toggled on or off
toggleSelection(index) ==
    IF index < 0 \/ index >= Len(files)
    THEN UNCHANGED <<selectedFiles, files, marked>>
    ELSE LET v == ~IsSelected(selectedFiles, index)
         IN  /\ selectedFiles' = [i \in DOMAIN selectedFiles \cup {index} |->
                                     IF i = index THEN v ELSE selectedFiles[i]]
             /\ files' = [files EXCEPT ![index + 1].Selected = v]
             /\ marked' = IF v THEN marked \cup {files[index + 1].Path}
                           ELSE marked \ {files[index + 1].Path}

selectAll ==
    /\ selectedFiles' = [i \in DOMAIN selectedFiles \cup 0..(Len(files) - 1) |->
                            IF i < Len(files) THEN TRUE ELSE selectedFiles[i]]
    /\ files' = [i \in 1..Len(files) |-> [files[i] EXCEPT !.Selected = TRUE]]
    /\ marked' = marked \cup {files[i].Path : i \in 1..Len(files)}

deselectAll ==
    /\ selectedFiles' = NoSelection
    /\ files' = [i \in 1..Len(files) |-> [files[i] EXCEPT !.Selected = FALSE]]
    /\ marked' = {}

KeySelect ==
    /\ KeyIn(StateFileList)
    /\ toggleSelection(listIndex)
    /\ UNCHANGED <<modeVars, bannerVars, sizeVars, gitStatus, listIndex, lastFileIndex,
                   previewVars, diffCache, commitVars, headVars, backendVars,
                   lastCall, diffCalls, ignoredKeys, cmds,
                   msgs, exited>>

KeySelectAll ==
    /\ KeyIn(StateFileList)
    /\ selectAll
    /\ UNCHANGED <<modeVars, bannerVars, sizeVars, gitStatus, listIndex, lastFileIndex,
                   previewVars, diffCache, commitVars, headVars, backendVars,
                   lastCall, diffCalls, ignoredKeys, cmds,
                   msgs, exited>>

KeyDeselect ==
    /\ KeyIn(StateFileList)
    /\ deselectAll
    /\ UNCHANGED <<modeVars, bannerVars, sizeVars, gitStatus, listIndex, lastFileIndex,
                   previewVars, diffCache, commitVars, headVars, backendVars,
                   lastCall, diffCalls, ignoredKeys, cmds,
                   msgs, exited>>

KeyTogglePreview ==
    /\ KeyIn(StateFileList)
    /\ previewFocused' = IF showPreview /\ HasPreviewPane(layout)
                         THEN ~previewFocused ELSE previewFocused
    /\ UNCHANGED <<modeVars, bannerVars, sizeVars, listVars, previewContent, diffCache,
                   commitVars, headVars, backendVars, historyVars, cmds, msgs, exited>>

KeyToggleHelp ==
    /\ KeyIn(StateFileList)
    /\ state' = StateHelp
    /\ UNCHANGED <<commitState, headModifyState, bannerVars, sizeVars, listVars,
                   previewVars, diffCache, commitVars, headVars, backendVars, historyVars, cmds,
                   msgs, exited>>

\* bubbles list: CursorUp, CursorDown, GoToStart and GoToEnd on n items
CursorUp(i, n) == IF i - 1 >= 0 THEN i - 1 ELSE 0

CursorDown(i, n) == IF i + 1 < n THEN i + 1 ELSE IF i + 1 > n THEN 0 ELSE n - 1

GoToStart(i, n) == 0

GoToEnd(i, n) == n - 1

\* the list moved to idx; a new diff is fetched when the index changed
ListMoved(idx) ==
    /\ listIndex' = idx
    /\ IF showPreview /\ idx >= 0 /\ idx # lastFileIndex
       THEN /\ lastFileIndex' = idx
            /\ IF HasCurrentFile(files, idx)
               THEN /\ previewContent' = NoContent
                    /\ cmds' = cmds (+) Bag1(fetchDiffCmd(files[idx + 1]))
               ELSE UNCHANGED <<previewContent, cmds>>
       ELSE UNCHANGED <<lastFileIndex, previewContent, cmds>>

PreviewScrolls == previewFocused /\ viewportHeight < LineCount(previewContent)

\* Up and Down: scroll the focused preview (the scroll offset is not modelled),
\* otherwise move the list
KeyUp ==
    /\ KeyIn(StateFileList)
    /\ MayDispatch
    /\ IF PreviewScrolls
       THEN UNCHANGED <<listIndex, lastFileIndex, previewContent, cmds>>
       ELSE ListMoved(CursorUp(listIndex, Len(files)))
    /\ UNCHANGED <<modeVars, bannerVars, sizeVars, gitStatus, files, selectedFiles,
                   previewFocused, diffCache, commitVars, headVars, backendVars, historyVars,
                   msgs, exited>>

KeyDown ==
    /\ KeyIn(StateFileList)
    /\ MayDispatch
    /\ IF PreviewScrolls
       THEN UNCHANGED <<listIndex, lastFileIndex, previewContent, cmds>>
       ELSE ListMoved(CursorDown(listIndex, Len(files)))
    /\ UNCHANGED <<modeVars, bannerVars, sizeVars, gitStatus, files, selectedFiles,
                   previewFocused, diffCache, commitVars, headVars, backendVars, historyVars,
                   msgs, exited>>

KeyHome ==
    /\ KeyIn(StateFileList)
    /\ MayDispatch
    /\ ListMoved(GoToStart(listIndex, Len(files)))
    /\ UNCHANGED <<modeVars, bannerVars, sizeVars, gitStatus, files, selectedFiles,
                   previewFocused, diffCache, commitVars, headVars, backendVars, historyVars,
                   msgs, exited>>

KeyEnd ==
    /\ KeyIn(StateFileList)
    /\ MayDispatch
    /\ ListMoved(GoToEnd(listIndex, Len(files)))
    /\ UNCHANGED <<modeVars, bannerVars, sizeVars, gitStatus, files, selectedFiles,
                   previewFocused, diffCache, commitVars, headVars, backendVars, historyVars,
                   msgs, exited>>

\* applySelection: the stage/unstage command batched with a gitRefreshMsg.  It sets
\* m.processing through a pointer while `return m, m.applySelection()` also reads m
\* by value: Go leaves the order of the read and the call open, so the returned
\* model carries the flag or not
applySelection(selected) ==
    /\ processing' \in {TRUE, processing}
    /\ cmds' = cmds (+) Bag1(toggleSelectionCmd(selected))
    /\ msgs' = msgs (+) Bag1([m |-> "gitRefreshMsg"])

KeyApply ==
    /\ KeyIn(StateFileList)
    /\ LET selected == getSelectedFiles(files, selectedFiles)
       IN  IF Len(selected) = 0
           THEN /\ Room(1)
                /\ status' = "No files selected"
                /\ msgs' = msgs (+) Bag1(clearStatus)
                /\ UNCHANGED <<processing, cmds>>
           ELSE /\ Room(2)
                /\ status' = "Processing " \o Itoa(Len(selected)) \o " file(s)..."
                /\ applySelection(selected)
    /\ UNCHANGED <<modeVars, err, sizeVars, listVars, previewVars, diffCache,
                   commitVars, headVars, backendVars, historyVars, exited>>

enterCommitMode ==
    /\ state' = StateCommitMessage
    /\ commitState' = CommitStateMessage
    /\ commitMessage' = <<>>
    /\ commitDate' = <<>>
    /\ commitTextarea' = [value |-> <<>>, focus |-> TRUE]

KeyCommit ==
    /\ KeyIn(StateFileList)
    /\ MayDispatch
    /\ IF StagedCount(gitStatus) = 0
       THEN /\ status' = "No files staged"
            /\ msgs' = msgs (+) Bag1(clearStatus)
            /\ UNCHANGED <<state, commitState, commitMessage, commitDate, commitTextarea>>
       ELSE /\ enterCommitMode
            /\ UNCHANGED <<status, msgs>>
    /\ UNCHANGED <<headModifyState, err, processing, sizeVars, listVars, previewVars,
                   diffCache, commitInput, headVars, backendVars, historyVars, cmds, exited>>

enterModifyHeadMode ==
    /\ state' = StateModifyHead
    /\ headModifyState' = HeadModifyStateMenu

KeyModifyHead ==
    /\ KeyIn(StateFileList)
    /\ MayDispatch
    /\ enterModifyHeadMode
    /\ processing' = TRUE
    /\ cmds' = cmds (+) Bag1([c |-> "fetchHeadInfo"])
    /\ UNCHANGED <<commitState, err, status, sizeVars, listVars, previewVars, diffCache,
                   commitVars, headVars, backendVars, historyVars, msgs, exited>>

\* any key handleFileListKeys has no case for (page up, page down, search, ...)
KeyOther ==
    /\ KeyIn(StateFileList)
    /\ UNCHANGED vars

(***************************************************************************)
(* src/update.go: the commit flow, the help view and the HEAD flow         *)
(***************************************************************************)
\* bubbles textarea/textinput Update on a key carrying runes: inserted only when focused
TypeInto(input, r) ==
    IF input.focus THEN [input EXCEPT !.value = Append(@, r)] ELSE input

Focus(input) == [input EXCEPT !.focus = TRUE]

Blur(input) == [input EXCEPT !.focus = FALSE]

Reset(input) == [input EXCEPT !.value = <<>>]

proceedToDateInput ==
    /\ commitState' = CommitStateDate
    /\ commitInput' = Focus(Reset(commitInput))

\* cancelCommit without the two assignments that clear the draft
cancelCommitKeepsDraft ==
    /\ state' = StateFileList
    /\ UNCHANGED <<commitMessage, commitDate>>
    /\ commitTextarea' = Blur(commitTextarea)
    /\ commitInput' = Blur(commitInput)

cancelCommit ==
    /\ state' = StateFileList
    /\ commitMessage' = <<>>
    /\ commitDate' = <<>>
    /\ commitTextarea' = Blur(commitTextarea)
    /\ commitInput' = Blur(commitInput)

\* "ctrl+d" without the check for an empty message
KeyCommitMessageConfirmUnchecked ==
    /\ KeyIn(StateCommitMessage)
    /\ commitState = CommitStateMessage
    /\ MayDispatch
    /\ commitMessage' = commitTextarea.value
    /\ proceedToDateInput
    /\ UNCHANGED <<state, headModifyState, bannerVars, sizeVars, listVars,
                   previewVars, diffCache, commitTextarea, commitDate, headVars,
                   backendVars, historyVars, cmds, msgs, exited>>

\* handleCommitMessageKeys "ctrl+d"
KeyCommitMessageConfirm ==
    /\ KeyIn(StateCommitMessage)
    /\ commitState = CommitStateMessage
    /\ MayDispatch
    /\ commitMessage' = commitTextarea.value
    /\ IF commitTextarea.value = <<>>
       THEN /\ err' = "Commit message cannot be empty"
            /\ msgs' = msgs (+) Bag1(clearError)
            /\ UNCHANGED <<commitState, commitInput>>
       ELSE /\ proceedToDateInput
            /\ UNCHANGED <<err, msgs>>
    /\ UNCHANGED <<state, headModifyState, status, processing, sizeVars, listVars,
                   previewVars, diffCache, commitTextarea, commitDate, headVars,
                   backendVars, historyVars, cmds, exited>>

\* handleCommitMessageKeys "esc"
KeyCommitMessageCancel ==
    /\ KeyIn(StateCommitMessage)
    /\ commitState = CommitStateMessage
    /\ cancelCommit
    /\ UNCHANGED <<commitState, headModifyState, bannerVars, sizeVars, listVars,
                   previewVars, diffCache, headVars, backendVars, historyVars, cmds, msgs, exited>>

\* handleCommitMessageKeys default
KeyCommitMessageType ==
    /\ KeyIn(StateCommitMessage)
    /\ commitState = CommitStateMessage
    /\ Len(commitTextarea.value) < MaxTextLen
    /\ \E r \in MsgRunes : commitTextarea' = TypeInto(commitTextarea, r)
    /\ UNCHANGED <<modeVars, bannerVars, sizeVars, listVars, previewVars, diffCache,
                   commitInput, commitMessage, commitDate, headVars, backendVars, historyVars,
                   cmds, msgs, exited>>

\* "enter" dispatching the date field as it was before the assignment
KeyCommitDateConfirmStaleDate ==
    /\ KeyIn(StateCommitMessage)
    /\ commitState = CommitStateDate
    /\ MayDispatch
    /\ commitDate' = commitInput.value
    /\ commitInput' = Blur(commitInput)
    /\ commitTextarea' = Blur(commitTextarea)
    /\ cmds' = cmds (+) Bag1([c |-> "commitCmd", message |-> commitMessage,
                              date |-> commitDate])
    /\ UNCHANGED <<modeVars, bannerVars, sizeVars, listVars, previewVars, diffCache,
                   commitMessage, headVars, backendVars, historyVars, msgs, exited>>

\* handleCommitDateKeys "enter"
KeyCommitDateConfirm ==
    /\ KeyIn(StateCommitMessage)
    /\ commitState = CommitStateDate
    /\ MayDispatch
    /\ commitDate' = commitInput.value
    /\ commitInput' = Blur(commitInput)
    /\ commitTextarea' = Blur(commitTextarea)
    /\ cmds' = cmds (+) Bag1([c |-> "commitCmd", message |-> commitMessage,
                              date |-> commitInput.value])
    /\ UNCHANGED <<modeVars, bannerVars, sizeVars, listVars, previewVars, diffCache,
                   commitMessage, headVars, backendVars, historyVars, msgs, exited>>

\* handleCommitDateKeys "esc"
KeyCommitDateCancel ==
    /\ KeyIn(StateCommitMessage)
    /\ commitState = CommitStateDate
    /\ commitState' = CommitStateMessage
    /\ commitTextarea' = Focus(commitTextarea)
    /\ commitInput' = Reset(commitInput)
    /\ UNCHANGED <<state, headModifyState, bannerVars, sizeVars, listVars, previewVars,
                   diffCache, commitMessage, commitDate, headVars, backendVars, historyVars, cmds,
                   msgs, exited>>

\* handleCommitDateKeys default
KeyCommitDateType ==
    /\ KeyIn(StateCommitMessage)
    /\ commitState = CommitStateDate
    /\ Len(commitInput.value) < MaxTextLen
    /\ \E r \in DateRunes : commitInput' = TypeInto(commitInput, r)
    /\ UNCHANGED <<modeVars, bannerVars, sizeVars, listVars, previewVars, diffCache,
                   commitTextarea, commitMessage, commitDate, headVars, backendVars, historyVars,
                   cmds, msgs, exited>>

\* toggle-help or quit in the help view, quit ending the program as it does in
\* the file list
KeyHelpCloseQuits ==
    /\ KeyIn(StateHelp)
    /\ \/ state' = StateFileList /\ exited' = exited
       \/ state' = state /\ exited' = "quit"
    /\ UNCHANGED <<commitState, headModifyState, bannerVars, sizeVars, listVars,
                   previewVars, diffCache, commitVars, headVars, backendVars, historyVars, cmds,
                   msgs>>

\* handleHelpKeys: toggle-help or quit
KeyHelpClose ==
    /\ KeyIn(StateHelp)
    /\ state' = StateFileList
    /\ UNCHANGED <<commitState, headModifyState, bannerVars, sizeVars, listVars,
                   previewVars, diffCache, commitVars, headVars, backendVars, historyVars, cmds,
                   msgs, exited>>

\* handleHelpKeys default
KeyHelpOther ==
    /\ KeyIn(StateHelp)
    /\ UNCHANGED vars

enterAmendMessageMode ==
    /\ headModifyState' = HeadModifyStateAmendMessage
    /\ headMessageTextarea' =
           Focus(IF headInfo.present
                 THEN [headMessageTextarea EXCEPT !.value = headInfo.Message]
                 ELSE headMessageTextarea)

cancelModifyHead ==
    /\ state' = StateFileList
    /\ headModifyState' = HeadModifyStateMenu
    /\ headMessageTextarea' = Blur(headMessageTextarea)
    /\ headInfo' = NoHeadInfo

\* handleHeadMenuKeys "m"
KeyHeadMenuAmendMessage ==
    /\ KeyIn(StateModifyHead)
    /\ headModifyState = HeadModifyStateMenu
    /\ enterAmendMessageMode
    /\ UNCHANGED <<state, commitState, bannerVars, sizeVars, listVars, previewVars,
                   diffCache, commitVars, headInfo, backendVars, historyVars, cmds, msgs, exited>>

\* handleHeadMenuKeys "f"
KeyHeadMenuSoftReset ==
    /\ KeyIn(StateModifyHead)
    /\ headModifyState = HeadModifyStateMenu
    /\ MayDispatch
    /\ processing' = TRUE
    /\ cmds' = cmds (+) Bag1([c |-> "softResetHeadCmd"])
    /\ UNCHANGED <<modeVars, err, status, sizeVars, listVars, previewVars, diffCache,
                   commitVars, headVars, backendVars, historyVars, msgs, exited>>

\* handleHeadMenuKeys "esc", "q"
KeyHeadMenuCancel ==
    /\ KeyIn(StateModifyHead)
    /\ headModifyState = HeadModifyStateMenu
    /\ cancelModifyHead
    /\ UNCHANGED <<commitState, bannerVars, sizeVars, listVars, previewVars, diffCache,
                   commitVars, backendVars, historyVars, cmds, msgs, exited>>

\* handleHeadMenuKeys default
KeyHeadMenuOther ==
    /\ KeyIn(StateModifyHead)
    /\ headModifyState = HeadModifyStateMenu
    /\ UNCHANGED vars

\* "ctrl+d" at the amend step without the check for an empty message
KeyAmendConfirmUnchecked ==
    /\ KeyIn(StateModifyHead)
    /\ headModifyState = HeadModifyStateAmendMessage
    /\ MayDispatch
    /\ processing' = TRUE
    /\ headMessageTextarea' = Blur(headMessageTextarea)
    /\ cmds' = cmds (+) Bag1([c |-> "amendMessageCmd",
                              message |-> headMessageTextarea.value])
    /\ UNCHANGED <<modeVars, err, status, msgs, sizeVars, listVars, previewVars,
                   diffCache, commitVars, headInfo, backendVars, historyVars, exited>>

\* handleHeadAmendMessageKeys "ctrl+d"
KeyAmendConfirm ==
    /\ KeyIn(StateModifyHead)
    /\ headModifyState = HeadModifyStateAmendMessage
    /\ MayDispatch
    /\ IF headMessageTextarea.value = <<>>
       THEN /\ err' = "Commit message cannot be empty"
            /\ msgs' = msgs (+) Bag1(clearError)
            /\ UNCHANGED <<processing, headMessageTextarea, cmds>>
       ELSE /\ processing' = TRUE
            /\ headMessageTextarea' = Blur(headMessageTextarea)
            /\ cmds' = cmds (+) Bag1([c |-> "amendMessageCmd",
                                      message |-> headMessageTextarea.value])
            /\ UNCHANGED <<err, msgs>>
    /\ UNCHANGED <<modeVars, status, sizeVars, listVars, previewVars, diffCache,
                   commitVars, headInfo, backendVars, historyVars, exited>>

\* handleHeadAmendMessageKeys "esc"
KeyAmendCancel ==
    /\ KeyIn(StateModifyHead)
    /\ headModifyState = HeadModifyStateAmendMessage
    /\ headModifyState' = HeadModifyStateMenu
    /\ headMessageTextarea' = Reset(Blur(headMessageTextarea))
    /\ UNCHANGED <<state, commitState, bannerVars, sizeVars, listVars, previewVars,
                   diffCache, commitVars, headInfo, backendVars, historyVars, cmds, msgs, exited>>

\* handleHeadAmendMessageKeys default
KeyAmendType ==
    /\ KeyIn(StateModifyHead)
    /\ headModifyState = HeadModifyStateAmendMessage
    /\ Len(headMessageTextarea.value) < MaxTextLen
    /\ \E r \in MsgRunes : headMessageTextarea' = TypeInto(headMessageTextarea, r)
    /\ UNCHANGED <<modeVars, bannerVars, sizeVars, listVars, previewVars, diffCache,
                   commitVars, headInfo, backendVars, historyVars, cmds, msgs, exited>>

(***************************************************************************)
(* src/update.go: Update on the window size, on mouse input and on the     *)
(* messages the commands send                                              *)
(***************************************************************************)
Receive(msg) == Running /\ BagIn(msg, msgs)

refreshStatus == [c |-> "refreshStatusCmd"]

\* tea.WindowSizeMsg
WindowSizeOf(w, h) ==
    /\ Running
    /\ MayDispatch
    /\ width' = w
    /\ height' = h
    /\ layout' = NewLayout(w, h)
    /\ viewportHeight' = Max(1, ListHeight(NewLayout(w, h)) - 3)
    /\ ready' = TRUE
    /\ cmds' = IF showPreview /\ Len(files) > 0 /\ HasCurrentFile(files, listIndex)
               THEN cmds (+) Bag1(fetchDiffCmd(files[listIndex + 1]))
               ELSE cmds
    /\ UNCHANGED <<modeVars, bannerVars, listVars, previewVars, diffCache, commitVars,
                   headVars, backendVars, historyVars, msgs, exited>>

WindowSize == \E w \in Widths, h \in Heights : WindowSizeOf(w, h)

\* any message Update has no case for (a mouse event): the list/viewport fallthrough
MouseMsg ==
    /\ Running
    /\ MayDispatch
    /\ IF showPreview /\ ready /\ state = StateFileList
          /\ listIndex >= 0 /\ listIndex # lastFileIndex
       THEN /\ lastFileIndex' = listIndex
            /\ IF HasCurrentFile(files, listIndex)
               THEN /\ previewContent' = NoContent
                    /\ cmds' = cmds (+) Bag1(fetchDiffCmd(files[listIndex + 1]))
               ELSE UNCHANGED <<previewContent, cmds>>
       ELSE UNCHANGED <<lastFileIndex, previewContent, cmds>>
    /\ UNCHANGED <<modeVars, bannerVars, sizeVars, gitStatus, files, selectedFiles,
                   listIndex, previewFocused, diffCache, commitVars, headVars,
                   backendVars, historyVars, msgs, exited>>

UpdateGitStatusMsg(msg) ==
    /\ Receive(msg)
    /\ msg.m = "gitStatusMsg"
    /\ gitStatus' = msg.status
    /\ files' = AllFiles(msg.status)
    /\ LET n == Len(AllFiles(msg.status))
           idx == IF listIndex < 0 /\ n > 0 THEN 0 ELSE listIndex
       IN  /\ listIndex' = idx
           /\ IF showPreview /\ n > 0 /\ ready /\ idx >= 0
                 /\ HasCurrentFile(AllFiles(msg.status), idx)
              THEN /\ lastFileIndex' = idx
                   /\ cmds' = cmds (+) Bag1(fetchDiffCmd(AllFiles(msg.status)[idx + 1]))
              ELSE /\ lastFileIndex' = -1
                   /\ cmds' = cmds
    /\ msgs' = msgs (-) Bag1(msg)
    /\ UNCHANGED <<modeVars, bannerVars, sizeVars, selectedFiles, previewVars,
                   diffCache, commitVars, headVars, backendVars, historyVars, exited>>

UpdateErrorMsg(msg) ==
    /\ Receive(msg)
    /\ msg.m = "errorMsg"
    /\ err' = msg.text
    /\ msgs' = IF msg.text = "" THEN msgs (-) Bag1(msg)
               ELSE (msgs (-) Bag1(msg)) (+) Bag1(clearError)
    /\ UNCHANGED <<modeVars, status, processing, sizeVars, listVars, previewVars,
                   diffCache, commitVars, headVars, backendVars, historyVars, cmds, exited>>

UpdateStatusMsg(msg) ==
    /\ Receive(msg)
    /\ msg.m = "statusMsg"
    /\ status' = msg.text
    /\ msgs' = IF msg.text = "" THEN msgs (-) Bag1(msg)
               ELSE (msgs (-) Bag1(msg)) (+) Bag1(clearStatus)
    /\ UNCHANGED <<modeVars, err, processing, sizeVars, listVars, previewVars,
                   diffCache, commitVars, headVars, backendVars, historyVars, cmds, exited>>

\* gitStageMsg and gitUnstageMsg: only stageFilesCmd and unstageFilesCmd send them,
\* and the program never calls either, so this handler is no part of Next
UpdateGitStageMsg(msg) ==
    /\ Receive(msg)
    /\ msg.m \in {"gitStageMsg", "gitUnstageMsg"}
    /\ processing' = FALSE
    /\ IF ~msg.ok
       THEN /\ err' = msg.text
            /\ msgs' = (msgs (-) Bag1(msg)) (+) Bag1(clearError)
            /\ UNCHANGED <<status, selectedFiles, files, marked, cmds>>
       ELSE /\ status' = (IF msg.m = "gitStageMsg" THEN "Staged " ELSE "Unstaged ")
                         \o Itoa(Len(msg.files)) \o " file(s)"
            /\ deselectAll
            /\ cmds' = cmds (+) Bag1(refreshStatus)
            /\ msgs' = (msgs (-) Bag1(msg)) (+) Bag1(clearStatus)
            /\ err' = err
    /\ UNCHANGED <<modeVars, sizeVars, gitStatus, listIndex, lastFileIndex, previewVars,
                   diffCache, commitVars, headVars, backendVars, lastCall, diffCalls, ignoredKeys, exited>>

UpdateGitRefreshMsg(msg) ==
    /\ Receive(msg)
    /\ msg.m = "gitRefreshMsg"
    /\ cmds' = cmds (+) Bag1(refreshStatus)
    /\ msgs' = msgs (-) Bag1(msg)
    /\ UNCHANGED <<modeVars, bannerVars, sizeVars, listVars, previewVars, diffCache,
                   commitVars, headVars, backendVars, historyVars, exited>>

\* fetchDiffCmd always sends err: nil, so only the content branch is taken
UpdateGitDiffMsg(msg) ==
    /\ Receive(msg)
    /\ msg.m = "gitDiffMsg"
    /\ previewContent' = msg.content
    /\ msgs' = msgs (-) Bag1(msg)
    /\ UNCHANGED <<modeVars, bannerVars, sizeVars, listVars, previewFocused, diffCache,
                   commitVars, headVars, backendVars, historyVars, cmds, exited>>

\* the gitCommitMsg case without the two assignments that clear the draft
UpdateGitCommitMsgKeepsDraft(msg) ==
    /\ Receive(msg)
    /\ msg.m = "gitCommitMsg"
    /\ IF ~msg.ok
       THEN /\ err' = "Commit failed: " \o msg.text
            /\ msgs' = (msgs (-) Bag1(msg)) (+) Bag1(clearError)
            /\ UNCHANGED <<status, state, cmds>>
       ELSE /\ status' = msg.text
            /\ state' = StateFileList
            /\ cmds' = cmds (+) Bag1(refreshStatus)
            /\ msgs' = (msgs (-) Bag1(msg)) (+) Bag1(clearStatus)
            /\ err' = err
    /\ UNCHANGED <<commitState, headModifyState, processing, sizeVars, listVars,
                   previewVars, diffCache, commitVars, headVars,
                   backendVars, historyVars, exited>>

UpdateGitCommitMsg(msg) ==
    /\ Receive(msg)
    /\ msg.m = "gitCommitMsg"
    /\ IF ~msg.ok
       THEN /\ err' = "Commit failed: " \o msg.text
            /\ msgs' = (msgs (-) Bag1(msg)) (+) Bag1(clearError)
            /\ UNCHANGED <<status, state, commitMessage, commitDate, cmds>>
       ELSE /\ status' = msg.text
            /\ state' = StateFileList
            /\ commitMessage' = <<>>
            /\ commitDate' = <<>>
            /\ cmds' = cmds (+) Bag1(refreshStatus)
            /\ msgs' = (msgs (-) Bag1(msg)) (+) Bag1(clearStatus)
            /\ err' = err
    /\ UNCHANGED <<commitState, headModifyState, processing, sizeVars, listVars,
                   previewVars, diffCache, commitTextarea, commitInput, headVars,
                   backendVars, historyVars, exited>>

UpdateGitHeadInfoMsg(msg) ==
    /\ Receive(msg)
    /\ msg.m = "gitHeadInfoMsg"
    /\ headInfo' = msg.info
    /\ msgs' = msgs (-) Bag1(msg)
    /\ UNCHANGED <<modeVars, bannerVars, sizeVars, listVars, previewVars, diffCache,
                   commitVars, headMessageTextarea, backendVars, historyVars, cmds, exited>>

\* the gitAmendMsg case returning to the file list on failure as on success
UpdateGitAmendMsgLeavesOnFailure(msg) ==
    /\ Receive(msg)
    /\ msg.m = "gitAmendMsg"
    /\ state' = StateFileList
    /\ IF ~msg.ok
       THEN /\ err' = "Amendment failed: " \o msg.text
            /\ msgs' = (msgs (-) Bag1(msg)) (+) Bag1(clearError)
            /\ UNCHANGED <<status, headInfo, cmds>>
       ELSE /\ status' = msg.text
            /\ headInfo' = NoHeadInfo
            /\ cmds' = cmds (+) Bag1(refreshStatus)
            /\ msgs' = (msgs (-) Bag1(msg)) (+) Bag1(clearStatus)
            /\ err' = err
    /\ UNCHANGED <<commitState, headModifyState, processing, sizeVars, listVars,
                   previewVars, diffCache, commitVars, headMessageTextarea,
                   backendVars, historyVars, exited>>

UpdateGitAmendMsg(msg) ==
    /\ Receive(msg)
    /\ msg.m = "gitAmendMsg"
    /\ IF ~msg.ok
       THEN /\ err' = "Amendment failed: " \o msg.text
            /\ msgs' = (msgs (-) Bag1(msg)) (+) Bag1(clearError)
            /\ UNCHANGED <<status, state, headInfo, cmds>>
       ELSE /\ status' = msg.text
            /\ state' = StateFileList
            /\ headInfo' = NoHeadInfo
            /\ cmds' = cmds (+) Bag1(refreshStatus)
            /\ msgs' = (msgs (-) Bag1(msg)) (+) Bag1(clearStatus)
            /\ err' = err
    /\ UNCHANGED <<commitState, headModifyState, processing, sizeVars, listVars,
                   previewVars, diffCache, commitVars, headMessageTextarea,
                   backendVars, historyVars, exited>>

(***************************************************************************)
(* src/unnamed/part_003: the git client, on the working tree of the model. *)
(* Every call can fail (execGit: a git error or the 10 s timeout).         *)
(***************************************************************************)
Range(f) == {f[i] : i \in DOMAIN f}

\* git add -- files: refused as a whole when a pathspec matches no file
StageAccepts(fs) == \A i \in 1..Len(fs) : PathIndex(fs[i]) # 0

StageEffect(r, fs) ==
    [i \in Paths |-> IF PathName(i) \in Range(fs)
                     THEN (IF r[i] = Modified THEN StagedXY
                           ELSE IF r[i] = UntrackedXY THEN AddedXY ELSE r[i])
                     ELSE r[i]]

\* git reset HEAD -- files
UnstageEffect(r, fs) ==
    [i \in Paths |-> IF PathName(i) \in Range(fs)
                     THEN (IF r[i] = StagedXY THEN Modified
                           ELSE IF r[i] = AddedXY THEN UntrackedXY ELSE r[i])
                     ELSE r[i]]

HasStaged(r) == \E i \in Paths : r[i] \in {StagedXY, AddedXY}

\* git commit: the index becomes the new HEAD
CommitEffect(r) == [i \in Paths |-> IF r[i] \in {StagedXY, AddedXY} THEN Clean ELSE r[i]]

\* git diff [--cached] -- path prints a diff when the path has changes of that kind
DiffText(r, path, staged) ==
    LET i == PathIndex(path)
    IN  IF i # 0 /\ ((staged /\ r[i] \in {StagedXY, AddedXY}) \/ (~staged /\ r[i] = Modified))
        THEN [k |-> "diff", path |-> path, staged |-> staged]
        ELSE NoContent

(***************************************************************************)
(* src/commands.go                                                         *)
(***************************************************************************)
SampleLimit == 8192

IsTextByte(b) == b \in {9, 10, 13, 32} \/ ~((b < 32 \/ b > 126) /\ (b < 128 \/ b > 191))

isBinaryFile(data) ==
    IF 0 \in Range(data) THEN TRUE
    ELSE IF Len(data) > 0
         THEN LET sampleSize == IF Len(data) > SampleLimit THEN SampleLimit ELSE Len(data)
                  nonTextCount == Cardinality({i \in 1..sampleSize : ~IsTextByte(data[i])})
              IN  sampleSize > 0 /\ (nonTextCount * 100) \div sampleSize > 30
         ELSE FALSE

\* what os.ReadFile and isBinaryFile make of the file at path
RawContent(path) ==
    IF isBinaryFile(fileBytes[PathIndex(path)])
    THEN [k |-> "[BINARY] File cannot be previewed", path |-> path, staged |-> FALSE]
    ELSE [k |-> "raw", path |-> path, staged |-> FALSE]

Placeholder(text, path) == [k |-> text, path |-> path, staged |-> FALSE]

gitDiffMsg(file, content) == [m |-> "gitDiffMsg", file |-> file.Path, content |-> content]

Done(c) == cmds (-) Bag1(c)

Step(c, d) == (cmds (-) Bag1(c)) (+) Bag1(d)

UNCHANGED_model == UNCHANGED <<modeVars, bannerVars, sizeVars, listVars, previewVars,
                               commitVars, headVars>>

Runs(c, name) == Running /\ BagIn(c, cmds) /\ c.c = name

\* fetchGitStatus (Init) and refreshStatusCmd: Client.Status and its parse; ok tells
\* whether the git call succeeds
RunStatusCmd(c, ok) ==
    /\ Running /\ BagIn(c, cmds)
    /\ c.c \in {"fetchGitStatus", "refreshStatusCmd"}
    /\ cmds' = Done(c)
    /\ msgs' = msgs (+) Bag1(IF ok
                             THEN [m |-> "gitStatusMsg",
                                   status |-> parseStatusOutput(Porcelain(repo, 1))]
                             ELSE [m |-> "errorMsg",
                                   text |-> IF c.c = "fetchGitStatus"
                                            THEN "Failed to get git status"
                                            ELSE "Failed to refresh status"])
    /\ UNCHANGED_model
    /\ UNCHANGED <<diffCache, backendVars, historyVars, exited>>

\* PathsWith without the test of the status
PathsOfAll(fs, staged) == [i \in 1..Len(fs) |-> fs[i].Path]

PathsWith(fs, staged) ==
    LET sel == SelectSeq(fs, LAMBDA f : (f.Status = StatusStaged) = staged)
    IN  [i \in 1..Len(sel) |-> sel[i].Path]

\* toggleSelectionCmd: stage the unstaged when they are the majority, else unstage
RunToggleSelectionCmd(c, ok) ==
    /\ Runs(c, "toggleSelectionCmd")
    /\ cmds' = Done(c)
    /\ LET staged == PathsWith(c.files, TRUE)
           unstaged == PathsWith(c.files, FALSE)
       IN  IF Len(unstaged) > Len(staged)
           THEN /\ lastCall' = [op |-> "Stage", files |-> unstaged,
                                ok |-> ok /\ StageAccepts(unstaged)]
                /\ IF ok /\ StageAccepts(unstaged)
                   THEN /\ repo' = StageEffect(repo, unstaged)
                        /\ msgs' = msgs (+) Bag1([m |-> "statusMsg", text |->
                                      "Staged " \o Itoa(Len(unstaged)) \o " file(s)"])
                   ELSE /\ repo' = repo
                        /\ msgs' = msgs (+) Bag1([m |-> "errorMsg",
                                                  text |-> "Failed to stage files"])
           ELSE /\ lastCall' = [op |-> "Unstage", files |-> staged, ok |-> ok]
                /\ IF ok
                   THEN /\ repo' = UnstageEffect(repo, staged)
                        /\ msgs' = msgs (+) Bag1([m |-> "statusMsg", text |->
                                      "Unstaged " \o Itoa(Len(staged)) \o " file(s)"])
                   ELSE /\ repo' = repo
                        /\ msgs' = msgs (+) Bag1([m |-> "errorMsg",
                                                  text |-> "Failed to unstage files"])
    /\ UNCHANGED_model
    /\ UNCHANGED <<diffCache, head, fileBytes, diffCalls, ignoredKeys, marked, exited>>

FetchOutcomes == {"ok", "diffFails", "readFails"}

\* diffCalls counts, up to two, the Client.Diff calls on a path that returned a text
CountDiff(path) ==
    IF PathIndex(path) = 0 THEN diffCalls
    ELSE [diffCalls EXCEPT ![PathIndex(path)] = Min(@ + 1, 2)]

\* fetchDiffCmd up to the backend call: the cache is read in the goroutine; outcome
\* tells whether Client.Diff and os.ReadFile succeed
FetchDiffStart(c, outcome) ==
    /\ Runs(c, "fetchDiffCmd")
    /\ c.pc = "start"
    /\ LET path == c.file.Path
           staged == c.file.Status = StatusStaged
           send(content) == /\ cmds' = Done(c)
                            /\ msgs' = msgs (+) Bag1(gitDiffMsg(c.file, content))
           store(content) == /\ cmds' = Step(c, [c EXCEPT !.pc = "store",
                                                          !.content = content])
                             /\ msgs' = msgs
           readable == outcome = "ok" /\ PathIndex(path) # 0
       IN  IF path \in DOMAIN diffCache
           THEN outcome = "ok" /\ send(diffCache[path]) /\ UNCHANGED diffCalls
           ELSE IF c.file.Status = StatusUntracked
           THEN /\ outcome # "diffFails"
                /\ UNCHANGED diffCalls
                /\ IF readable THEN store(RawContent(path))
                   ELSE send(Placeholder("Error reading file", path))
           ELSE IF outcome = "diffFails"
           THEN send(Placeholder("Error loading diff", path)) /\ UNCHANGED diffCalls
           ELSE /\ diffCalls' = CountDiff(path)
                /\ IF DiffText(repo, path, staged) # NoContent
                   THEN outcome = "ok" /\ store(DiffText(repo, path, staged))
                   ELSE IF readable THEN store(RawContent(path))
                   ELSE store(Placeholder("(File has no changes)", path))
    /\ UNCHANGED_model
    /\ UNCHANGED <<diffCache, backendVars, lastCall, ignoredKeys, marked, exited>>

\* fetchDiffCmd keeping a cache of the last result only
FetchDiffStoreEvicting(c) ==
    /\ Runs(c, "fetchDiffCmd")
    /\ c.pc = "store"
    /\ diffCache' = [p \in {c.file.Path} |-> c.content]
    /\ cmds' = Done(c)
    /\ msgs' = msgs (+) Bag1(gitDiffMsg(c.file, c.content))
    /\ UNCHANGED_model
    /\ UNCHANGED <<backendVars, historyVars, exited>>

\* fetchDiffCmd from "Cache the result" on: the goroutine writes the shared map
FetchDiffStore(c) ==
    /\ Runs(c, "fetchDiffCmd")
    /\ c.pc = "store"
    /\ diffCache' = [p \in DOMAIN diffCache \cup {c.file.Path} |->
                        IF p = c.file.Path THEN c.content ELSE diffCache[p]]
    /\ cmds' = Done(c)
    /\ msgs' = msgs (+) Bag1(gitDiffMsg(c.file, c.content))
    /\ UNCHANGED_model
    /\ UNCHANGED <<backendVars, historyVars, exited>>

\* two goroutines of fetchDiffCmd on the map at once, one of them writing: the Go
\* runtime may end the process ("fatal error: concurrent map writes" or "concurrent
\* map read and map write"); when it does not, the accesses happen in some order
ConcurrentMapAccess ==
    /\ Running
    /\ \E c, d \in BagToSet(cmds) :
          /\ c.c = "fetchDiffCmd" /\ d.c = "fetchDiffCmd"
          /\ c.pc = "store"
          /\ c # d \/ CopiesIn(c, cmds) > 1
    /\ exited' = "fatal"
    /\ UNCHANGED_model
    /\ UNCHANGED <<diffCache, backendVars, historyVars, cmds, msgs>>

ParsableDates == {"2024-01-02"}

\* ValidateCommitDate accepting every text
ValidateCommitDateLenient(dateStr) == [ok |-> TRUE, date |-> dateStr]

\* ValidateCommitDate: "" and "now" mean the current time, a text in one of the
\* accepted formats is reformatted, any other text is an error
ValidateCommitDate(dateStr) ==
    IF dateStr = <<>> \/ dateStr \in {<<"now">>, <<"NOW">>, <<"Now">>}
    THEN [ok |-> TRUE, date |-> <<>>]
    ELSE IF Len(dateStr) = 1 /\ dateStr[1] \in ParsableDates
    THEN [ok |-> TRUE, date |-> <<dateStr[1], " 00:00:00">>]
    ELSE [ok |-> FALSE, date |-> <<>>]

commitFailed(reason) == [m |-> "gitCommitMsg", ok |-> FALSE, text |-> reason]

\* commitCmd: the date is validated, then Client.Commit
RunCommitCmd(c, ok) ==
    /\ Runs(c, "commitCmd")
    /\ cmds' = Done(c)
    /\ IF c.date # <<>> /\ ~ValidateCommitDate(c.date).ok
       THEN /\ msgs' = msgs (+) Bag1(commitFailed("invalid date format"))
            /\ UNCHANGED <<backendVars, lastCall>>
       ELSE /\ lastCall' = [op |-> "Commit", files |-> <<>>,
                            ok |-> c.message # <<>> /\ ok /\ HasStaged(repo)]
            /\ IF c.message = <<>>
               THEN /\ msgs' = msgs (+) Bag1(commitFailed("commit message cannot be empty"))
                    /\ UNCHANGED backendVars
               ELSE IF ok /\ HasStaged(repo)
               THEN /\ repo' = CommitEffect(repo)
                    /\ head' = c.message
                    /\ msgs' = msgs (+) Bag1([m |-> "gitCommitMsg", ok |-> TRUE,
                                              text |-> "[OK] Commit created successfully"])
               ELSE /\ msgs' = msgs (+) Bag1(commitFailed("failed to create commit"))
                    /\ UNCHANGED backendVars
    /\ UNCHANGED_model
    /\ UNCHANGED <<diffCache, fileBytes, diffCalls, ignoredKeys, marked, exited>>

amendFailed(reason) == [m |-> "gitAmendMsg", ok |-> FALSE, text |-> reason]

\* amendMessageCmd: Client.AmendMessage
RunAmendMessageCmd(c, ok) ==
    /\ Runs(c, "amendMessageCmd")
    /\ cmds' = Done(c)
    /\ IF c.message = <<>>
       THEN /\ head' = head
            /\ msgs' = msgs (+) Bag1(amendFailed("commit message cannot be empty"))
       ELSE IF ok
       THEN /\ head' = c.message
            /\ msgs' = msgs (+) Bag1([m |-> "gitAmendMsg", ok |-> TRUE,
                                      text |-> "[OK] Commit message amended successfully"])
       ELSE /\ head' = head
            /\ msgs' = msgs (+) Bag1(amendFailed("failed to amend commit"))
    /\ UNCHANGED_model
    /\ UNCHANGED <<diffCache, repo, fileBytes, historyVars, exited>>

\* softResetHeadCmd: Client.SoftResetHead moves HEAD to its parent; what the parent
\* commit says and which paths its changes touch is outside the model
RunSoftResetHeadCmd(c, ok) ==
    /\ Runs(c, "softResetHeadCmd")
    /\ cmds' = Done(c)
    /\ IF ok
       THEN /\ head' = InitSubject
            /\ msgs' = msgs (+) Bag1([m |-> "gitAmendMsg", ok |-> TRUE, text |->
                                      "[OK] HEAD soft reset successfully. Changes staged."])
       ELSE /\ head' = head
            /\ msgs' = msgs (+) Bag1(amendFailed("failed to soft reset HEAD"))
    /\ UNCHANGED_model
    /\ UNCHANGED <<diffCache, repo, fileBytes, historyVars, exited>>

\* fetchHeadInfo returning no message when Client.HeadInfo fails
RunFetchHeadInfoSilent(c, ok) ==
    /\ Runs(c, "fetchHeadInfo")
    /\ cmds' = Done(c)
    /\ msgs' = IF ok
               THEN msgs (+) Bag1([m |-> "gitHeadInfoMsg",
                                   info |-> [present |-> TRUE, Message |-> head]])
               ELSE msgs
    /\ UNCHANGED_model
    /\ UNCHANGED <<diffCache, backendVars, historyVars, exited>>

\* fetchHeadInfo: Client.GetHeadCommitInfo
RunFetchHeadInfo(c, ok) ==
    /\ Runs(c, "fetchHeadInfo")
    /\ cmds' = Done(c)
    /\ msgs' = msgs (+) Bag1(IF ok
                             THEN [m |-> "gitHeadInfoMsg",
                                   info |-> [present |-> TRUE, Message |-> head]]
                             ELSE [m |-> "errorMsg", text |-> "Failed to get HEAD info"])
    /\ UNCHANGED_model
    /\ UNCHANGED <<diffCache, backendVars, historyVars, exited>>

(***************************************************************************)
(* The program: keys and window events, the update loop, the goroutines.   *)
(***************************************************************************)
Keys ==
    \/ KeyQuit \/ KeyIgnoredOnError
    \/ KeySelect \/ KeySelectAll \/ KeyDeselect \/ KeyTogglePreview \/ KeyToggleHelp
    \/ KeyUp \/ KeyDown \/ KeyHome \/ KeyEnd
    \/ KeyApply \/ KeyCommit \/ KeyModifyHead \/ KeyOther
    \/ KeyCommitMessageConfirm \/ KeyCommitMessageCancel \/ KeyCommitMessageType
    \/ KeyCommitDateConfirm \/ KeyCommitDateCancel \/ KeyCommitDateType
    \/ KeyHelpClose \/ KeyHelpOther
    \/ KeyHeadMenuAmendMessage \/ KeyHeadMenuSoftReset \/ KeyHeadMenuCancel
    \/ KeyHeadMenuOther
    \/ KeyAmendConfirm \/ KeyAmendCancel \/ KeyAmendType

\* the update loop takes one message off the channel
UpdateMsg ==
    \/ \E msg \in BagToSet(msgs) : UpdateGitStatusMsg(msg)
    \/ \E msg \in BagToSet(msgs) : UpdateErrorMsg(msg)
    \/ \E msg \in BagToSet(msgs) : UpdateStatusMsg(msg)
    \/ \E msg \in BagToSet(msgs) : UpdateGitRefreshMsg(msg)
    \/ \E msg \in BagToSet(msgs) : UpdateGitDiffMsg(msg)
    \/ \E msg \in BagToSet(msgs) : UpdateGitCommitMsg(msg)
    \/ \E msg \in BagToSet(msgs) : UpdateGitHeadInfoMsg(msg)
    \/ \E msg \in BagToSet(msgs) : UpdateGitAmendMsg(msg)

\* a step of the update loop
Update == Keys \/ WindowSize \/ MouseMsg \/ UpdateMsg

\* a step of a command in its goroutine
Command ==
    \/ \E c \in BagToSet(cmds), ok \in BOOLEAN : RunStatusCmd(c, ok)
    \/ \E c \in BagToSet(cmds), ok \in BOOLEAN : RunToggleSelectionCmd(c, ok)
    \/ \E c \in BagToSet(cmds), ok \in BOOLEAN : RunCommitCmd(c, ok)
    \/ \E c \in BagToSet(cmds), ok \in BOOLEAN : RunAmendMessageCmd(c, ok)
    \/ \E c \in BagToSet(cmds), ok \in BOOLEAN : RunSoftResetHeadCmd(c, ok)
    \/ \E c \in BagToSet(cmds), ok \in BOOLEAN : RunFetchHeadInfo(c, ok)
    \/ \E c \in BagToSet(cmds), outcome \in FetchOutcomes : FetchDiffStart(c, outcome)
    \/ \E c \in BagToSet(cmds) : FetchDiffStore(c)
    \/ ConcurrentMapAccess

Next == Update \/ Command

\* the whole program
Spec == Init /\ [][Next]_vars

(***************************************************************************)
(* The program under the inputs of one flow at a time.  Each flow is Spec  *)
(* with the user's input restricted to that of the flow; every behaviour   *)
(* of a flow is a behaviour of Spec.                                       *)
(***************************************************************************)
\* selecting files in the list and applying the selection
StagingNext ==
    \/ KeySelect \/ KeySelectAll \/ KeyDeselect \/ KeyApply
    \/ KeyIgnoredOnError
    \/ \E msg \in BagToSet(msgs) : UpdateGitStatusMsg(msg)
    \/ \E msg \in BagToSet(msgs) : UpdateErrorMsg(msg)
    \/ \E msg \in BagToSet(msgs) : UpdateStatusMsg(msg)
    \/ \E msg \in BagToSet(msgs) : UpdateGitRefreshMsg(msg)
    \/ \E c \in BagToSet(cmds), ok \in BOOLEAN : RunStatusCmd(c, ok)
    \/ \E c \in BagToSet(cmds), ok \in BOOLEAN : RunToggleSelectionCmd(c, ok)

SpecStaging == Init /\ [][StagingNext]_vars

\* moving through the list with the preview pane open
PreviewNext ==
    \/ WindowSize \/ MouseMsg
    \/ KeyUp \/ KeyDown \/ KeyHome \/ KeyEnd \/ KeyTogglePreview \/ KeyQuit
    \/ \E msg \in BagToSet(msgs) : UpdateGitStatusMsg(msg)
    \/ \E msg \in BagToSet(msgs) : UpdateGitDiffMsg(msg)
    \/ \E c \in BagToSet(cmds) : RunStatusCmd(c, TRUE)
    \/ \E c \in BagToSet(cmds), outcome \in FetchOutcomes : FetchDiffStart(c, outcome)
    \/ \E c \in BagToSet(cmds) : FetchDiffStore(c)
    \/ ConcurrentMapAccess

SpecPreview == Init /\ [][PreviewNext]_vars

\* the HEAD modification flow
HeadNext ==
    \/ KeyModifyHead
    \/ KeyHeadMenuAmendMessage \/ KeyHeadMenuSoftReset \/ KeyHeadMenuCancel
    \/ KeyHeadMenuOther
    \/ KeyAmendConfirm \/ KeyAmendCancel \/ KeyAmendType
    \/ KeyIgnoredOnError
    \/ \E msg \in BagToSet(msgs) : UpdateGitStatusMsg(msg)
    \/ \E msg \in BagToSet(msgs) : UpdateErrorMsg(msg)
    \/ \E msg \in BagToSet(msgs) : UpdateStatusMsg(msg)
    \/ \E msg \in BagToSet(msgs) : UpdateGitHeadInfoMsg(msg)
    \/ \E msg \in BagToSet(msgs) : UpdateGitAmendMsg(msg)
    \/ \E c \in BagToSet(cmds), ok \in BOOLEAN : RunStatusCmd(c, ok)
    \/ \E c \in BagToSet(cmds), ok \in BOOLEAN : RunFetchHeadInfo(c, ok)
    \/ \E c \in BagToSet(cmds), ok \in BOOLEAN : RunAmendMessageCmd(c, ok)
    \/ \E c \in BagToSet(cmds), ok \in BOOLEAN : RunSoftResetHeadCmd(c, ok)

SpecHead == Init /\ [][HeadNext]_vars

\* the commit flow and the help screen
CommitNext ==
    \/ KeyCommit \/ KeyToggleHelp \/ KeyOther
    \/ KeyCommitMessageConfirm \/ KeyCommitMessageCancel \/ KeyCommitMessageType
    \/ KeyCommitDateConfirm \/ KeyCommitDateCancel \/ KeyCommitDateType
    \/ KeyHelpClose \/ KeyHelpOther
    \/ KeyIgnoredOnError
    \/ \E msg \in BagToSet(msgs) : UpdateGitStatusMsg(msg)
    \/ \E msg \in BagToSet(msgs) : UpdateErrorMsg(msg)
    \/ \E msg \in BagToSet(msgs) : UpdateStatusMsg(msg)
    \/ \E msg \in BagToSet(msgs) : UpdateGitCommitMsg(msg)
    \/ \E c \in BagToSet(cmds), ok \in BOOLEAN : RunStatusCmd(c, ok)
    \/ \E c \in BagToSet(cmds), ok \in BOOLEAN : RunCommitCmd(c, ok)

SpecCommit == Init /\ [][CommitNext]_vars

(***************************************************************************)
(* Properties                                                              *)
(***************************************************************************)
ReceivedBy(kind) == {msg \in BagToSet(msgs) : msg.m = kind}

CurrentPath == IF HasCurrentFile(files, listIndex) THEN files[listIndex + 1].Path ELSE <<>>

\* C1: a diff result is applied to the preview only if its path is the path of the
\* highlighted file when the message is processed; any other result leaves the
\* preview content as it was.
DiffAppliedOnlyToCurrentFile ==
    [][\A msg \in ReceivedBy("gitDiffMsg") :
          (UpdateGitDiffMsg(msg) /\ msg.file # CurrentPath)
              => previewContent' = previewContent]_vars

\* C2: the diff cache is written only by a step of the update loop, never by a
\* running command.
CacheWrittenOnlyByUpdate == [][diffCache' # diffCache => Update]_vars

Quiescent == cmds = EmptyBag /\ msgs = EmptyBag

\* C3: after an apply whose Stage call on one file succeeded, once every message has
\* been processed the snapshot lists the file as staged.
AppliedFileListedStaged ==
    (/\ Quiescent
     /\ lastCall.op = "Stage" /\ lastCall.ok /\ Len(lastCall.files) = 1)
        => lastCall.files[1] \in Range(gitStatus.Staged)

ApplyResults ==
    {verb \o Itoa(n) \o " file(s)" : verb \in {"Staged ", "Unstaged "}, n \in 0..NumPaths}

\* C4: when the result message of a successful stage or unstage done by apply has
\* been processed, no list position is selected.
SelectionEmptyAfterApply ==
    [][\A msg \in ReceivedBy("statusMsg") :
          (UpdateStatusMsg(msg) /\ msg.text \in ApplyResults)
              => \A i \in DOMAIN selectedFiles' : ~selectedFiles'[i]]_vars

\* C5: in every reachable state the Selected flag of the file at each list position
\* is true exactly when the position is selected in the selection set.
SelectedFlagMirrorsSelection ==
    \A i \in 1..Len(files) : files[i].Selected = IsSelected(selectedFiles, i - 1)

\* C6: processing is false whenever no operation is in flight: it is set at dispatch
\* and reset when the result message is processed.
ProcessingOnlyWhileInFlight == Quiescent => ~processing

\* C7: while no fetch fails, the backend diff is invoked at most once for a path,
\* also when a second request is issued while the first is in flight.
DiffInvokedOncePerPath == \A i \in Paths : diffCalls[i] <= 1

SoftResetResults ==
    {"[OK] HEAD soft reset successfully. Changes staged.", "failed to soft reset HEAD"}

\* C8: the amend-files key of the HEAD menu dispatches one soft reset command, and
\* when its result is processed the mode is FileList, whether the reset succeeded or
\* failed.
SoftResetLeavesToFileList ==
    [][/\ KeyHeadMenuSoftReset => cmds' = cmds (+) Bag1([c |-> "softResetHeadCmd"])
       /\ \A msg \in ReceivedBy("gitAmendMsg") :
             (UpdateGitAmendMsg(msg) /\ msg.text \in SoftResetResults)
                 => state' = StateFileList]_vars

\* C9: HeadInfo is present only while the mode is ModifyHead, also when its result
\* arrives after the flow was left.
HeadInfoOnlyInModifyHead == headInfo.present => state = StateModifyHead

\* C10: on entering AmendMessage from the menu the amend text input holds the subject
\* of the HEAD commit, whichever of the key press and the HeadInfo result comes first.
AmendInputHoldsHeadSubject ==
    [][KeyHeadMenuAmendMessage => headMessageTextarea'.value = head]_vars

\* the update loop takes msg off the channel in this step
Processed(msg) == BagIn(msg, msgs) /\ CopiesIn(msg, msgs') = CopiesIn(msg, msgs) - 1

\* C11: when a commit result is processed, on success the mode becomes FileList, the
\* draft (message and date) is cleared, the status shows the success message and a
\* status refresh is dispatched; on failure the error is set and mode, commit
\* sub-state and draft stay as they were.
CommitResultApplied ==
    [][\A msg \in ReceivedBy("gitCommitMsg") :
          Processed(msg) =>
              IF msg.ok
              THEN /\ state' = StateFileList
                   /\ commitMessage' = <<>> /\ commitDate' = <<>>
                   /\ status' = "[OK] Commit created successfully"
                   /\ cmds' = cmds (+) Bag1(refreshStatus)
              ELSE /\ err' # ""
                   /\ UNCHANGED <<state, commitState, commitMessage, commitDate>>]_vars

\* a commit made with a message and a date has been reported and the draft is gone
CommitSucceeded ==
    /\ status = "[OK] Commit created successfully"
    /\ state = StateFileList
    /\ commitMessage = <<>> /\ commitDate = <<>>
    /\ head = <<"x">>
    /\ repo[1] = Clean

\* C12: the commit key, handled in the file list, enters the commit flow at the
\* message step with an empty draft (message, date and message input) exactly
\* when the status snapshot lists a staged path; with none staged the mode, the
\* sub-states and the draft stay as they are and the status reads
\* "No files staged"
CommitKeyNeedsStagedPath ==
    [][KeyCommit =>
          IF Len(gitStatus.Staged) >= 1
          THEN /\ state' = StateCommitMessage
               /\ commitState' = CommitStateMessage
               /\ commitMessage' = <<>> /\ commitDate' = <<>>
               /\ commitTextarea'.value = <<>>
          ELSE /\ UNCHANGED <<modeVars, commitVars>>
               /\ state' = StateFileList
               /\ status' = "No files staged"]_vars

\* the commit key was refused while the snapshot listed files, none of them staged
CommitKeyRefused ==
    /\ status = "No files staged"
    /\ state = StateFileList
    /\ gitStatus.Staged = <<>>
    /\ gitStatus.Unstaged # <<>>

\* C13: at the message step, confirm moves to the date step exactly when the
\* text of the message input is non-empty; with an empty text the mode and the
\* sub-states stay, the validation error is raised and nothing is dispatched
\* but the timer that clears the error
MessageConfirmNeedsText ==
    [][KeyCommitMessageConfirm =>
          IF commitTextarea.value # <<>>
          THEN /\ state' = StateCommitMessage
               /\ commitState' = CommitStateDate
               /\ commitMessage' = commitTextarea.value
          ELSE /\ UNCHANGED modeVars
               /\ commitState' = CommitStateMessage
               /\ err' = "Commit message cannot be empty"
               /\ cmds' = cmds
               /\ msgs' = msgs (+) Bag1(clearError)]_vars

\* confirm was pressed at the message step with nothing typed
EmptyMessageRefused ==
    /\ err = "Commit message cannot be empty"
    /\ state = StateCommitMessage
    /\ commitState = CommitStateMessage
    /\ commitTextarea.value = <<>>

\* C14: cancel at the date step returns to the message step with the date input
\* emptied and the message kept; cancel at the message step returns to the file
\* list with the draft message and date cleared; neither dispatches anything
CancelStepsBackOneLevel ==
    [][/\ (KeyCommitDateCancel =>
              (/\ state' = StateCommitMessage
               /\ commitState' = CommitStateMessage
               /\ commitInput'.value = <<>>
               /\ commitMessage' = commitMessage
               /\ commitTextarea'.value = commitTextarea.value
               /\ cmds' = cmds /\ msgs' = msgs))
        /\ (KeyCommitMessageCancel =>
              (/\ state' = StateFileList
               /\ commitMessage' = <<>> /\ commitDate' = <<>>
               /\ cmds' = cmds /\ msgs' = msgs))]_vars

\* back at the message step from the date step: the confirmed message is kept
BackAtMessageStep ==
    /\ state = StateCommitMessage
    /\ commitState = CommitStateMessage
    /\ commitMessage # <<>>
    /\ commitTextarea.value = commitMessage
    /\ commitInput.value = <<>>

\* C15: confirm at the date step dispatches one commit command that carries the
\* kept message and the text of the date input (empty when nothing was
\* entered) and leaves the mode and the sub-states as they are; no commit
\* command on its way to the backend carries an empty message
DateConfirmDispatchesCommit ==
    /\ [][KeyCommitDateConfirm =>
             /\ cmds' = cmds (+) Bag1([c |-> "commitCmd", message |-> commitMessage,
                                       date |-> commitInput.value])
             /\ msgs' = msgs
             /\ UNCHANGED <<modeVars, commitMessage>>
             /\ state' = StateCommitMessage /\ commitState' = CommitStateDate]_vars
    /\ [](\A c \in BagToSet(cmds) : c.c = "commitCmd" => c.message # <<>>)

\* a commit without a date is on its way while the date step is still shown
CommitWithoutDateInFlight ==
    /\ state = StateCommitMessage
    /\ commitState = CommitStateDate
    /\ \E c \in BagToSet(cmds) :
          c.c = "commitCmd" /\ c.date = <<>> /\ c.message = commitMessage

\* C16: at the amend step, confirm with a non-empty message dispatches one
\* amend command; when its result is processed, success moves the mode to the
\* file list, failure sets the error and leaves the mode and the sub-states as
\* they are; cancel returns to the menu and dispatches nothing
AmendConfirmAndCancel ==
    [][/\ (KeyAmendConfirm /\ headMessageTextarea.value # <<>> =>
              (/\ cmds' = cmds (+) Bag1([c |-> "amendMessageCmd",
                                         message |-> headMessageTextarea.value])
               /\ msgs' = msgs
               /\ UNCHANGED modeVars))
        /\ (\A msg \in ReceivedBy("gitAmendMsg") :
              Processed(msg) =>
                  IF msg.ok
                  THEN state' = StateFileList
                  ELSE /\ err' # ""
                       /\ UNCHANGED modeVars)
        /\ (KeyAmendCancel =>
              (/\ state' = StateModifyHead
               /\ headModifyState' = HeadModifyStateMenu
               /\ cmds' = cmds /\ msgs' = msgs))]_vars

\* the amend failed and its error is shown over the amend step
AmendFailedAtAmendStep ==
    /\ err = "Amendment failed: failed to amend commit"
    /\ state = StateModifyHead
    /\ headModifyState = HeadModifyStateAmendMessage

\* C17: at the amend step, confirm with an empty message dispatches nothing to
\* the backend, raises the validation error and leaves the mode at the amend
\* step; no amend command on its way to the backend carries an empty message
EmptyAmendRejected ==
    /\ [][KeyAmendConfirm /\ headMessageTextarea.value = <<>> =>
             /\ cmds' = cmds
             /\ UNCHANGED backendVars
             /\ err' = "Commit message cannot be empty"
             /\ state' = StateModifyHead
             /\ headModifyState' = HeadModifyStateAmendMessage]_vars
    /\ [](\A c \in BagToSet(cmds) : c.c = "amendMessageCmd" => c.message # <<>>)

\* confirm was pressed at the amend step with an empty message input
EmptyAmendRefused ==
    /\ err = "Commit message cannot be empty"
    /\ state = StateModifyHead
    /\ headModifyState = HeadModifyStateAmendMessage
    /\ headMessageTextarea.value = <<>>

(***************************************************************************)
(* The error banner over the file list: a failed HEAD query whose menu was *)
(* left before the answer, with the mouse and the window size events.      *)
(***************************************************************************)
OverlayNext ==
    \/ WindowSize \/ MouseMsg
    \/ KeyModifyHead \/ KeyHeadMenuCancel
    \/ KeyIgnoredOnError \/ KeyQuit
    \/ \E msg \in BagToSet(msgs) : UpdateGitStatusMsg(msg)
    \/ \E msg \in BagToSet(msgs) : UpdateErrorMsg(msg)
    \/ \E msg \in BagToSet(msgs) : UpdateGitHeadInfoMsg(msg)
    \/ \E msg \in BagToSet(msgs) : UpdateGitDiffMsg(msg)
    \/ \E c \in BagToSet(cmds) : RunStatusCmd(c, TRUE)
    \/ \E c \in BagToSet(cmds), ok \in BOOLEAN : RunFetchHeadInfo(c, ok)
    \/ \E c \in BagToSet(cmds), outcome \in FetchOutcomes : FetchDiffStart(c, outcome)
    \/ \E c \in BagToSet(cmds) : FetchDiffStore(c)

SpecOverlay == Init /\ [][OverlayNext]_vars

\* C18: while an error is shown no key and no mouse event but quit changes the
\* mode, the sub-states, the selection, the list position or the drafts, and
\* none dispatches a command
OverlayPreemptsInput ==
    [][(err # "" /\ (Keys \/ MouseMsg) /\ ~KeyQuit) =>
          (/\ UNCHANGED <<modeVars, selectedFiles, listIndex, commitVars,
                          headMessageTextarea>>
           /\ cmds' = cmds)]_vars

\* the error texts the gitCommitMsg case shows for a failed commit
CommitFailures ==
    {"Commit failed: " \o reason :
        reason \in {"invalid date format", "commit message cannot be empty",
                    "failed to create commit"}}

\* C19: a key pressed while the error of a failed commit is shown removes the
\* error: after the key press the error text is empty
KeyPressDismissesError ==
    [][(err \in CommitFailures /\ Keys /\ ~KeyQuit) => err' = ""]_vars

\* C20: in the file list with files listed and the preview focused, the up and
\* down keys leave the list position as it is and dispatch no diff fetch,
\* whatever the preview holds
FocusedPreviewTakesUpDown ==
    [][(previewFocused /\ files # <<>> /\ (KeyUp \/ KeyDown)) =>
          (listIndex' = listIndex /\ cmds' = cmds)]_vars

\* C21: toggle-help moves the file list to the help view; in the help view
\* toggle-help and quit return to the file list, the program still running,
\* and every other key leaves the whole state as it is; none of them
\* dispatches anything
HelpTogglesAndIgnores ==
    [][/\ (KeyToggleHelp =>
              (state' = StateHelp /\ exited' = "no" /\ cmds' = cmds /\ msgs' = msgs))
        /\ ((state = StateHelp /\ err = "" /\ Keys) =>
              (\/ UNCHANGED vars
               \/ /\ KeyHelpClose
                  /\ state' = StateFileList
                  /\ exited' = "no"
                  /\ cmds' = cmds /\ msgs' = msgs
                  /\ UNCHANGED <<commitState, headModifyState, bannerVars, listVars,
                                 previewVars, commitVars, headVars>>))]_vars

\* the help view is shown over a list of files
HelpShown ==
    /\ state = StateHelp
    /\ err = ""
    /\ files # <<>>
    /\ exited = "no"

(***************************************************************************)
(* The layout: the first window size, of any terminal within the bounds,   *)
(* arriving before or after the first status.                              *)
(***************************************************************************)
FirstWindowSize ==
    /\ ~ready
    /\ \E w \in 0..MaxWidth, h \in 0..MaxHeight : WindowSizeOf(w, h)

LayoutNext ==
    \/ FirstWindowSize
    \/ \E msg \in BagToSet(msgs) : UpdateGitStatusMsg(msg)
    \/ \E c \in BagToSet(cmds) : RunStatusCmd(c, TRUE)

SpecLayout == Init /\ [][LayoutNext]_vars

\* C22, as stated: for every width below 100 the layout has no preview and a
\* list of width - 2 columns
NarrowLayoutListWidth ==
    (ready /\ width < 100) =>
        (layout.PreviewWidth = 0 /\ layout.ListWidth = width - 2)

\* C22, amended: for every width below 100 the layout has no preview and a
\* list of width - 2 columns, or of 30 columns when width - 2 is less than 30
NarrowLayoutClamped ==
    (ready /\ width < 100) =>
        /\ layout.PreviewWidth = 0
        /\ layout.ListWidth = (IF width - 2 < 30 THEN 30 ELSE width - 2)
        /\ ~HasPreviewPane(layout)

\* a terminal of 20 columns has its layout
NarrowTerminalLaidOut ==
    /\ ready
    /\ width = 20
    /\ layout.ListWidth = 30
    /\ layout.PreviewWidth = 0

\* C23: for every width and height the list width, the preview width and the
\* gutter (2 columns when the preview is enabled) together take at most the
\* terminal's width
LayoutFitsWidth ==
    ready =>
        layout.ListWidth + layout.PreviewWidth
            + (IF HasPreviewPane(layout) THEN 2 ELSE 0) <= width

\* C24: for every width of 100 and more and every height, whatever else the
\* model holds, the list is width/2 columns wide below 140 and 2*width/5 from
\* 140 on, the preview is enabled and width - listWidth - 2 columns wide, and
\* the content height is the larger of 5 and height - 5
WideLayoutMatchesReference ==
    (ready /\ width >= 100) =>
        /\ layout.ListWidth = (IF width < 140 THEN width \div 2 ELSE (2 * width) \div 5)
        /\ layout.PreviewWidth = width - layout.ListWidth - 2
        /\ HasPreviewPane(layout)
        /\ layout.ContentHeight = Max(5, height - 5)
        /\ layout.TotalWidth = width /\ layout.TotalHeight = height

\* a terminal of 140 columns and 4 rows has its layout, the files being listed
WideTerminalLaidOut ==
    /\ ready
    /\ width = 140 /\ height = 4
    /\ layout.ListWidth = 56 /\ layout.PreviewWidth = 82
    /\ layout.ContentHeight = 5
    /\ files # <<>>

(***************************************************************************)
(* Binary detection: the file at an untracked path holds any of the        *)
(* buffers below, and the preview of the path is fetched.                  *)
(***************************************************************************)
\* k bytes that are not text followed by text bytes, n bytes in all
BufferOf(k, n) == [i \in 1..n |-> IF i <= k THEN 1 ELSE 97]

\* a sample of text bytes followed by one byte more
LongBuffer(last) == [i \in 1..(SampleLimit + 1) |-> IF i <= SampleLimit THEN 97 ELSE last]

Buffers ==
    {BufferOf(k, n) : k \in 0..MaxBufLen, n \in 1..MaxBufLen}
    \cup {<<97, 0, 97>>, LongBuffer(0), LongBuffer(97)}

InitBinary ==
    \E b \in Buffers :
        InitWith([i \in Paths |-> IF i = 2 THEN Modified ELSE UntrackedXY],
                 [i \in Paths |-> b])

BinaryNext ==
    \/ WindowSize
    \/ KeyDown
    \/ \E msg \in BagToSet(msgs) : UpdateGitStatusMsg(msg)
    \/ \E msg \in BagToSet(msgs) : UpdateGitDiffMsg(msg)
    \/ \E c \in BagToSet(cmds) : RunStatusCmd(c, TRUE)
    \/ \E c \in BagToSet(cmds), outcome \in FetchOutcomes : FetchDiffStart(c, outcome)
    \/ \E c \in BagToSet(cmds) : FetchDiffStore(c)

SpecBinary == InitBinary /\ [][BinaryNext]_vars

\* C25: a file is shown as binary exactly when the first SampleLimit bytes hold
\* a NUL byte or more than 30% of them lie outside tab, LF, CR, space, 32..126
\* and 128..191; the bytes after the sample do not count
BinaryIffSampleSaysSo ==
    \A p \in DOMAIN diffCache :
        (PathIndex(p) # 0
         /\ diffCache[p].k \in {"raw", "[BINARY] File cannot be previewed"}) =>
            LET data == fileBytes[PathIndex(p)]
                size == Min(Len(data), SampleLimit)
                outside == Cardinality({i \in 1..size :
                               data[i] \notin ({9, 10, 13, 32} \cup (32..126)
                                                  \cup (128..191))})
            IN  (diffCache[p].k = "[BINARY] File cannot be previewed")
                    <=> (\/ \E i \in 1..size : data[i] = 0
                         \/ outside * 100 > 30 * size)

\* C26: apply with an empty selection dispatches no backend command and sets
\* the status "No files selected"; with entries selected it dispatches one
\* command holding exactly the entries at the selected positions, and that
\* command makes one call: Stage on exactly its entries that are not staged
\* when they outnumber its staged entries, otherwise Unstage on exactly its
\* staged entries
ApplyCallsBackendOnce ==
    [][/\ (KeyApply =>
              LET idx == SelectSeq([i \in 1..Len(files) |-> i],
                                   LAMBDA i : (i - 1) \in DOMAIN selectedFiles
                                              /\ selectedFiles[i - 1])
                  picked == [j \in 1..Len(idx) |->
                                [Path |-> files[idx[j]].Path,
                                 Status |-> files[idx[j]].Status]]
              IN  /\ UNCHANGED <<repo, lastCall>>
                  /\ IF picked = <<>>
                     THEN cmds' = cmds /\ status' = "No files selected"
                     ELSE cmds' = cmds (+) Bag1([c |-> "toggleSelectionCmd",
                                                 files |-> picked]))
        /\ (\A c \in BagToSet(cmds) :
              (\E ok \in BOOLEAN : RunToggleSelectionCmd(c, ok)) =>
                  LET notStaged == SelectSeq(c.files, LAMBDA f : f.Status # StatusStaged)
                      isStaged == SelectSeq(c.files, LAMBDA f : f.Status = StatusStaged)
                      call == IF Len(notStaged) > Len(isStaged)
                              THEN [op |-> "Stage", of |-> notStaged]
                              ELSE [op |-> "Unstage", of |-> isStaged]
                  IN  /\ lastCall'.op = call.op
                      /\ lastCall'.files = [i \in 1..Len(call.of) |-> call.of[i].Path]
                      /\ cmds' = cmds (-) Bag1(c))]_vars

\* both entries, one of them staged, were applied: the staged one was unstaged
MixedSelectionUnstaged ==
    /\ lastCall.op = "Unstage"
    /\ lastCall.ok
    /\ Len(lastCall.files) = 1
    /\ IsSelected(selectedFiles, 0) /\ IsSelected(selectedFiles, 1)

\* C27: a commit command whose date text is not empty, not "now" and not in an
\* accepted format makes no Commit call on the backend and posts a failure;
\* when the failure is processed the error is shown and the mode, the commit
\* step and the draft message stay as they are
UnparsableDateBlocksCommit ==
    [][/\ (\A c \in BagToSet(cmds) :
              (/\ \E ok \in BOOLEAN : RunCommitCmd(c, ok)
               /\ c.date # <<>>
               /\ c.date \notin {<<"now">>, <<"NOW">>, <<"Now">>}
               /\ ~(Len(c.date) = 1 /\ c.date[1] \in ParsableDates)) =>
                  (/\ UNCHANGED <<repo, head, lastCall>>
                   /\ msgs' = msgs (+) Bag1(commitFailed("invalid date format"))))
        /\ (\A msg \in ReceivedBy("gitCommitMsg") :
              (Processed(msg) /\ msg = commitFailed("invalid date format")) =>
                  (/\ err' = "Commit failed: invalid date format"
                   /\ UNCHANGED <<state, commitState, commitMessage>>))]_vars

\* the date "soon" was refused and the date step is still shown with its message
UnparsableDateRefused ==
    /\ err = "Commit failed: invalid date format"
    /\ state = StateCommitMessage
    /\ commitState = CommitStateDate
    /\ commitMessage # <<>>
    /\ commitDate = <<"soon">>
    /\ lastCall = NoCall

(***************************************************************************)
(* The backend's units of work.  Every operation that reaches git is        *)
(* dispatched here; the user issues the next operation once the commands    *)
(* and the messages of the previous one are done, and the terminal is       *)
(* sized once.  Client.execGit runs git under a context that expires after  *)
(* Client.timeout, so a command's goroutine that is started always          *)
(* returns, with a result or with an error: each step of a command is       *)
(* taken once it can be.                                                    *)
(***************************************************************************)
UnitsCommand ==
    \/ \E c \in BagToSet(cmds), ok \in BOOLEAN : RunStatusCmd(c, ok)
    \/ \E c \in BagToSet(cmds), ok \in BOOLEAN : RunToggleSelectionCmd(c, ok)
    \/ \E c \in BagToSet(cmds), ok \in BOOLEAN : RunCommitCmd(c, ok)
    \/ \E c \in BagToSet(cmds), ok \in BOOLEAN : RunAmendMessageCmd(c, ok)
    \/ \E c \in BagToSet(cmds), ok \in BOOLEAN : RunSoftResetHeadCmd(c, ok)
    \/ \E c \in BagToSet(cmds), ok \in BOOLEAN : RunFetchHeadInfo(c, ok)
    \/ \E c \in BagToSet(cmds), outcome \in FetchOutcomes : FetchDiffStart(c, outcome)
    \/ \E c \in BagToSet(cmds) : FetchDiffStore(c)

UnitsNext ==
    \/ Quiescent /\ ~ready /\ WindowSize
    \/ Quiescent /\ KeySelectAll
    \/ Quiescent /\ KeyApply
    \/ Quiescent /\ KeyCommit
    \/ Quiescent /\ KeyCommitMessageType
    \/ Quiescent /\ KeyCommitMessageConfirm
    \/ Quiescent /\ KeyCommitDateConfirm
    \/ Quiescent /\ KeyModifyHead
    \/ Quiescent /\ KeyHeadMenuAmendMessage
    \/ Quiescent /\ KeyHeadMenuSoftReset
    \/ Quiescent /\ KeyAmendConfirm
    \/ UpdateMsg
    \/ UnitsCommand

SpecUnits == Init /\ [][UnitsNext]_vars /\ WF_vars(UnitsCommand)

\* the messages a command returns
ResultKinds ==
    {"gitStatusMsg", "errorMsg", "statusMsg", "gitDiffMsg", "gitCommitMsg",
     "gitAmendMsg", "gitHeadInfoMsg"}

\* C28: a command that returns, whether its git call succeeded, failed or ran
\* into the timeout, puts exactly one message of a result kind on the channel
\* and leaves the program running; and commands in flight lead to a state where
\* all of them have returned
UnitsPostOneResult ==
    /\ [][\A c \in BagToSet(cmds) :
             (cmds' = cmds (-) Bag1(c)) =>
                 (/\ \E msg \in BagToSet(msgs') :
                        msg.m \in ResultKinds /\ msgs' = msgs (+) Bag1(msg)
                  /\ exited' = exited)]_vars
    /\ (cmds # EmptyBag) ~> (cmds = EmptyBag)

\* a failed soft reset has returned its failure and the program runs on
FailureResultPosted ==
    /\ BagIn(amendFailed("failed to soft reset HEAD"), msgs)
    /\ cmds = EmptyBag
    /\ exited = "no"

\* the texts of a fetch that failed
FetchFailures == {"Error reading file", "Error loading diff"}

UntrackedLinesListedUntracked ==
    \A msg \in ReceivedBy("gitStatusMsg") :
        \A i \in Paths :
            repo[i] = UntrackedXY =>
                LET all == AllFiles(msg.status)
                IN  /\ PathName(i) \in Range(msg.status.Untracked)
                    /\ PathName(i) \notin Range(msg.status.Unstaged)
                    /\ PathName(i) \notin Range(msg.status.Staged)
                    /\ \E k \in 1..Len(all) :
                          /\ all[k] = NewFileItem(PathName(i), StatusUntracked)
                          /\ k > Len(msg.status.Unstaged) + Len(msg.status.Staged)

\* C31: the snapshot the status command returns has, for every line "XY PATH" of
\* the porcelain output, first line included, an entry with exactly the path
\* PATH, in the unstaged list when the index character X is a space, and no
\* entry that is not the path of a line
EveryLineParsedWithItsPath ==
    [][\A c \in BagToSet(cmds) :
          RunStatusCmd(c, TRUE) =>
              LET s == parseStatusOutput(Porcelain(repo, 1))
                  listed == Range(s.Staged) \cup Range(s.Unstaged) \cup Range(s.Untracked)
              IN  /\ listed = {PathName(i) : i \in {j \in Paths : repo[j] # Clean}}
                  /\ \A i \in Paths :
                        (repo[i] # Clean /\ repo[i][1] = " ") =>
                            PathName(i) \in Range(s.Unstaged)]_vars

\* C32: a clear tick empties a status or an error only when it is the tick of the
\* text on show, that is, when no tick scheduled for a later text is still
\* pending
TickClearsOwnBanner ==
    [][/\ \A msg \in ReceivedBy("statusMsg") :
             (UpdateStatusMsg(msg) /\ msg.text = "" /\ status # "") =>
                 CopiesIn(clearStatus, msgs) = 1
       /\ \A msg \in ReceivedBy("errorMsg") :
             (UpdateErrorMsg(msg) /\ msg.text = "" /\ err # "") =>
                 CopiesIn(clearError, msgs) = 1]_vars

(***************************************************************************)
(* The commit flow and the HEAD menu side by side: the user may leave one   *)
(* and enter the other while a command is at work.                          *)
(***************************************************************************)
LateResultNext ==
    \/ KeyCommit
    \/ KeyCommitMessageConfirm \/ KeyCommitMessageCancel \/ KeyCommitMessageType
    \/ KeyCommitDateConfirm \/ KeyCommitDateCancel
    \/ KeyModifyHead \/ KeyHeadMenuSoftReset \/ KeyHeadMenuCancel
    \/ \E msg \in BagToSet(msgs) : UpdateGitStatusMsg(msg)
    \/ \E msg \in BagToSet(msgs) : UpdateErrorMsg(msg)
    \/ \E msg \in BagToSet(msgs) : UpdateStatusMsg(msg)
    \/ \E msg \in BagToSet(msgs) : UpdateGitCommitMsg(msg)
    \/ \E msg \in BagToSet(msgs) : UpdateGitHeadInfoMsg(msg)
    \/ \E msg \in BagToSet(msgs) : UpdateGitAmendMsg(msg)
    \/ \E c \in BagToSet(cmds), ok \in BOOLEAN : RunStatusCmd(c, ok)
    \/ \E c \in BagToSet(cmds), ok \in BOOLEAN : RunCommitCmd(c, ok)
    \/ \E c \in BagToSet(cmds), ok \in BOOLEAN : RunFetchHeadInfo(c, ok)
    \/ \E c \in BagToSet(cmds), ok \in BOOLEAN : RunSoftResetHeadCmd(c, ok)

SpecLateResult == Init /\ [][LateResultNext]_vars

\* C33: the success of a commit that is processed in the HEAD menu, and the
\* success of an amend or a soft reset that is processed in the commit flow,
\* leave the mode, its sub-state and the commit drafts as they are
LateResultKeepsMode ==
    [][/\ \A msg \in ReceivedBy("gitCommitMsg") :
             (UpdateGitCommitMsg(msg) /\ msg.ok /\ state = StateModifyHead) =>
                 UNCHANGED <<modeVars, commitVars, headMessageTextarea>>
       /\ \A msg \in ReceivedBy("gitAmendMsg") :
             (UpdateGitAmendMsg(msg) /\ msg.ok /\ state = StateCommitMessage) =>
                 UNCHANGED <<modeVars, commitVars, headMessageTextarea>>]_vars

\* C34: of the commit, the amend and the soft reset commands at most one each is
\* in flight at any time
OneCommitInFlight ==
    \A c \in BagToSet(cmds) :
        c.c \in {"commitCmd", "amendMessageCmd", "softResetHeadCmd"} =>
            /\ CopiesIn(c, cmds) = 1
            /\ \A d \in BagToSet(cmds) : d.c = c.c => d = c

\* C35: every path the apply key passes on to be staged or unstaged is the path
\* of an entry the user has selected and not deselected since
ApplyPassesMarkedPaths ==
    [][KeyApply =>
          \A c \in BagToSet(cmds') :
              (c.c = "toggleSelectionCmd" /\ CopiesIn(c, cmds') > CopiesIn(c, cmds)) =>
                  \A i \in 1..Len(c.files) : c.files[i].Path \in marked]_vars

\* C36: while a status text is shown a clear tick is pending, or a command or a
\* message of the operation that set the text is still in flight; once nothing
\* is in flight the status is empty
StatusClearedWhenDone ==
    status # "" => (BagIn(clearStatus, msgs) \/ ~Quiescent)

\* C37: once the result of a commit or an amend has been processed and its error
\* has cleared, with nothing left in flight, the input of the step the user is
\* in (the date in the commit date step, the message in the amend step) has the
\* focus, so that the characters typed go into it
InputFocusedAfterFailure ==
    (Quiescent /\ err = "") =>
        /\ (state = StateCommitMessage /\ commitState = CommitStateDate) =>
               commitInput.focus
        /\ (state = StateModifyHead /\ headModifyState = HeadModifyStateAmendMessage) =>
               headMessageTextarea.focus

\* C38: in every state the preview has the focus only if the layout has a preview
\* pane, which is also the condition under which the toggle-preview key changes
\* the focus
FocusOnlyWithPreviewPane ==
    previewFocused => (showPreview /\ HasPreviewPane(layout))

\* C39: once nothing is in flight, the preview a fetch has brought for the
\* highlighted staged or unstaged file is the backend's diff for that category
\* whenever the backend has one, not the file text or a placeholder fetched
\* under an earlier category
PreviewMatchesCategory ==
    (/\ Quiescent
     /\ HasCurrentFile(files, listIndex)
     /\ previewContent.path = CurrentPath
     /\ previewContent.k \notin FetchFailures
     /\ files[listIndex + 1].Status \in {StatusStaged, StatusUnstaged}
     /\ DiffText(repo, CurrentPath, files[listIndex + 1].Status = StatusStaged)
            # NoContent)
        => previewContent.k = "diff"

\* the "Selected: %d" of the list title: len(m.selectedFiles)
SelectedShown == Cardinality(DOMAIN selectedFiles)

\* C40: the Selected count of the list title is the number of list positions
\* that are selected
SelectedCountIsSelection ==
    SelectedShown = Cardinality({i \in DOMAIN selectedFiles : selectedFiles[i]})

====
